---- MODULE Spec2Model ----
(***************************************************************************)
(* FloWork front end: the HomePage view switch (page.tsx), the workflow    *)
(* list, the workflow builder, the workflow executor and the LLM status    *)
(* card, as React components whose async handlers are split at their       *)
(* awaits.                                                                 *)
(*                                                                         *)
(* React 18 semantics used throughout:                                     *)
(*  - `{view === "x" && <X/>}` unmounts X when view changes and mounts a   *)
(*    fresh instance (fresh useState values) when it changes back;         *)
(*  - state updates made in one synchronous run of a handler (between two  *)
(*    awaits) are batched into one commit, so such a run is one step;      *)
(*  - a state setter called by a handler of an unmounted instance does     *)
(*    nothing, but everything else the handler does (calling a prop        *)
(*    callback, issuing a request, alert) still happens. So all a pending  *)
(*    request has to remember of the instance that issued it is whether    *)
(*    that instance is still mounted (`live`).                             *)
(***************************************************************************)
EXTENDS Integers, Sequences, FiniteSets, Bags, TLC

(* ------------------------------ bounds -------------------------------- *)

\* longest text a user types into a free-text field
MaxLen == 1
\* most requests in flight at once
MaxInflight == 2
\* most nodes of a draft
MaxNodes == 1
\* most nodes of a draft where the node editor alone is explored
MaxDraft == 2

(* ----------------------------- JS values ------------------------------ *)

\* Values of type `any` (the execute response, the caught error) are tagged
\* records, so that `x.f`, `x?.f`, `a || b` and truthiness are computed as
\* JavaScript computes them.
JsNull == [t |-> "null"]
JsUndef == [t |-> "undefined"]
JsStr(s) == [t |-> "string", s |-> s]
JsNum(n) == [t |-> "number", n |-> n]
JsBool(b) == [t |-> "boolean", b |-> b]
JsArr(a) == [t |-> "array", a |-> a]
JsObj(f) == [t |-> "object", f |-> f]

Truthy(v) ==
  CASE v.t = "null" -> FALSE
    [] v.t = "undefined" -> FALSE
    [] v.t = "string" -> v.s # ""
    [] v.t = "number" -> v.n # 0
    [] v.t = "boolean" -> v.b
    [] OTHER -> TRUE

\* o.k where o is known not to be null/undefined, and o?.k in general
Field(o, k) == IF o.t = "object" /\ k \in DOMAIN o.f THEN o.f[k] ELSE JsUndef

\* a || b
JsOr(a, b) == IF Truthy(a) THEN a ELSE b

\* a && b
JsAnd(a, b) == IF Truthy(a) THEN b ELSE a

\* Strings the code only passes around or tests for emptiness (ids, messages,
\* descriptions) are TLA+ strings; NULL stands for JavaScript's null and
\* ABSENT for undefined.
NULL == "<null>"
ABSENT == "<undefined>"
TruthyStr(s) == s \notin {NULL, ABSENT, ""}
StrOr(a, b) == IF TruthyStr(a) THEN a ELSE b

\* Free text typed by the user (the executor's input, the workflow name) is a
\* sequence of characters, so that String.prototype.trim is computed.
Chars == {" ", "a"}
Text == UNION {[1..n -> Chars] : n \in 0..MaxLen}

IsSpace(c) == c = " "

RECURSIVE TrimStart(_)
TrimStart(s) ==
  IF s = <<>> THEN s
  ELSE IF IsSpace(Head(s)) THEN TrimStart(Tail(s)) ELSE s

RECURSIVE TrimEnd(_)
TrimEnd(s) ==
  IF s = <<>> THEN s
  ELSE IF IsSpace(s[Len(s)]) THEN TrimEnd(SubSeq(s, 1, Len(s) - 1)) ELSE s

Trim(s) == TrimEnd(TrimStart(s))

\* the texts typed where the whole application is explored: empty,
\* whitespace-only, non-empty
SomeTexts == {<<>>, <<" ">>, <<"a">>}

(* --------------------- the external REST service ---------------------- *)

\* The service is an external collaborator: what it answers is not decided by
\* this repository, so a completion draws the answer from these sets.
\* GET /workflows: the ids of the listed WorkflowMetadata, in listing order
ListBodies == {<<>>, <<"w1">>, <<"w1", "w2">>}

\* the listings drawn where the whole application is explored
SomeLists == {<<>>, <<"w1">>}

\* A caught error `err`: err.response?.data?.error and err.message, each
\* missing (ABSENT), empty or a message.
ErrObj(resp, msg) ==
  JsObj([k \in ({"response"} \cap (IF resp = ABSENT THEN {} ELSE {"response"}))
               \cup ({"message"} \cap (IF msg = ABSENT THEN {} ELSE {"message"})) |->
           IF k = "response"
           THEN JsObj([data |-> JsObj([error |-> JsStr(resp)])])
           ELSE JsStr(msg)])

\* errors of a failed execute request
ExecuteErrs ==
  {ErrObj(r, m) : r \in {ABSENT, "", "Workflow not found"},
                  m \in {ABSENT, "", "Network Error"}}

\* errors of the other failed requests (only err.message is read)
Errs == {ErrObj(ABSENT, m) : m \in {ABSENT, "Network Error"}}

\* POST /workflows/{id}/execute answers: any JSON value. Optional parts are
\* sequences of length 0 (missing) or 1.
Opt(S) == {<<>>} \cup {<<x>> : x \in S}

Body(e, fs, lg, sm) ==
  JsObj([k \in {x \in {"error"} : e # <<>>} \cup {x \in {"final_state"} : fs # <<>>}
               \cup {x \in {"execution_log"} : lg # <<>>} \cup {x \in {"summary"} : sm # <<>>} |->
           CASE k = "error" -> e[1]
             [] k = "final_state" -> fs[1]
             [] k = "execution_log" -> lg[1]
             [] OTHER -> sm[1]])

FinalStates ==
  {JsObj(<<>>), JsObj([last_response_content |-> JsStr("")]),
   JsObj([last_response_content |-> JsStr("out")])}

Logs == {JsArr(<<>>), JsArr(<<"line 1", "line 2">>)}

Summaries ==
  {JsObj([nodes_executed |-> JsNum(0)])} \cup
  {JsObj([nodes_executed |-> JsNum(3), has_error |-> JsBool(b)]) : b \in BOOLEAN}

AllBodies ==
  {JsNull} \cup
  {Body(e, fs, lg, sm) : e \in Opt({JsStr(""), JsStr("boom")}), fs \in Opt(FinalStates),
                         lg \in Opt(Logs), sm \in Opt(Summaries)}

\* the answers and errors drawn where the whole application is explored
SomeErrs == {ErrObj(ABSENT, ABSENT), ErrObj("Workflow not found", "Network Error")}

SomeBodies ==
  {JsNull,
   Body(<<JsStr("boom")>>, <<>>, <<>>, <<>>),
   Body(<<>>, <<JsObj([last_response_content |-> JsStr("out")])>>, <<JsArr(<<"line 1", "line 2">>)>>,
        <<JsObj([nodes_executed |-> JsNum(3), has_error |-> JsBool(FALSE)])>>)}

(* ------------------------------- state -------------------------------- *)

VARIABLES
  view,                \* HomePage: which screen is rendered
  selectedWorkflowId,  \* HomePage: the id handed to builder/executor as workflowId
  list,                \* WorkflowList state: workflows, loading, error
  builder,             \* WorkflowBuilder state: name, description, nodes, loading
  executor,            \* WorkflowExecutor state: workflows, selectedId, input, executing, result
  inflight,            \* bag of the requests issued and not yet completed
  service,             \* the persistence service: the Workflow stored under each id
  status,              \* LLMStatusCard: the LLMStatus snapshot held, or null
  requestState,        \* LLMStatusCard: loading, error, successMessage
  llmInflight,         \* bag of the card's requests issued and not yet completed
  last                 \* what the last step was: handler, branch, alert shown, error caught

vars ==
  <<view, selectedWorkflowId, list, builder, executor, inflight, service, status,
    requestState, llmInflight, last>>

\* the card's own state, which no view reads or writes
card == <<status, requestState, llmInflight>>

\* useState initial values
ListInit == [workflows |-> <<>>, loading |-> TRUE, error |-> NULL]
BuilderInit == [name |-> <<>>, description |-> "", nodes |-> <<>>, loading |-> FALSE]
ExecutorInit ==
  [workflows |-> <<>>, selectedId |-> "", input |-> <<>>, executing |-> FALSE,
   result |-> JsNull]

\* The record of a step: the handler that ran, how it went (the branch taken),
\* whether it ran for an instance that is no longer mounted, the alert it
\* showed (JsUndef: none), and for handleExecute the body it received or the
\* error it caught, for removeNode and updateNode the arguments of the call
\* (JsUndef otherwise).
Ev(op, note, stale, alert, data) ==
  [op |-> op, note |-> note, stale |-> stale, alert |-> alert, data |-> data]

NoArg == [none |-> TRUE]

\* the response slot of a request the service has not processed yet
Unserved == [none |-> TRUE]

\* a request just issued by the mounted instance
Req(kind, id, arg) ==
  [kind |-> kind, live |-> TRUE, id |-> id, arg |-> arg, resp |-> Unserved]

\* a service that holds nothing
NoService == [id \in {} |-> NoArg]

Add(B, r) == B (+) SetToBag({r})

Remove(B, r) == B (-) SetToBag({r})

\* the pending requests once the mounted screen is unmounted
Unmounted(B) ==
  LET dead(r) == [r EXCEPT !.live = FALSE]
      n(r) == IF r \in DOMAIN B THEN B[r] ELSE 0
  IN [s \in {dead(r) : r \in DOMAIN B} |-> n(s) + n([s EXCEPT !.live = TRUE])]

\* how many requests of the kinds K are pending
Pending(K) ==
  BagCardinality([r \in {x \in DOMAIN inflight : x.kind \in K} |-> inflight[r]])

Room(B, n) == BagCardinality(B) + n <= MaxInflight

(* ------------------------------ HomePage ------------------------------ *)

Range(s) == {s[i] : i \in DOMAIN s}

\* WorkflowBuilder's effect on [workflowId]: load, or reset the draft
BuilderEffect(b, w) ==
  IF TruthyStr(w)
  THEN [b EXCEPT !.loading = TRUE]
  ELSE [b EXCEPT !.name = <<>>, !.description = "", !.nodes = <<>>]

\* WorkflowExecutor's effect on [workflowId]
ExecutorEffect(e, w) == IF TruthyStr(w) THEN [e EXCEPT !.selectedId = w] ELSE e

\* The requests issued by the effects that run when HomePage renders screen v
\* with workflowId w: the mount effects of a fresh instance, or the builder's
\* [workflowId] effect when only the prop changed.
EffectReqs(v, w) ==
  IF v # view
  THEN IF v = "builder"
       THEN IF TruthyStr(w) THEN {Req("get", w, NoArg)} ELSE {}
       ELSE {Req("list", "", NoArg)}
  ELSE IF v = "builder" /\ w # selectedWorkflowId /\ TruthyStr(w)
       THEN {Req("get", w, NoArg)}
       ELSE {}

\* HomePage re-renders with view v and selectedWorkflowId w, B being the
\* pending requests: `{view === "x" && <X/>}` keeps the instance when the
\* screen stays and replaces it (fresh state, mount effects) when it changes.
Go(B, v, w, ev) ==
  LET remount == v # view
      reqs == EffectReqs(v, w)
  IN /\ Room(B, Cardinality(reqs))
     /\ view' = v
     /\ selectedWorkflowId' = w
     /\ list' = IF v = "list" /\ ~remount THEN list ELSE ListInit
     /\ builder' =
          IF v # "builder" THEN BuilderInit
          ELSE IF remount THEN BuilderEffect(BuilderInit, w)
          ELSE IF w # selectedWorkflowId THEN BuilderEffect(builder, w)
          ELSE builder
     /\ executor' =
          IF v # "executor" THEN ExecutorInit
          ELSE IF remount THEN ExecutorEffect(ExecutorInit, w)
          ELSE IF w # selectedWorkflowId THEN ExecutorEffect(executor, w)
          ELSE executor
     /\ inflight' = (IF remount THEN Unmounted(B) ELSE B) (+) SetToBag(reqs)
     /\ UNCHANGED <<card, service>>
     /\ last' = ev

\* the three nav buttons
NavWorkflows == Go(inflight, "list", NULL, Ev("navWorkflows", "", FALSE, JsUndef, JsUndef))

\* (mutant) a Build button without setSelectedWorkflowId(null)
NavBuildKeepsSelection ==
  Go(inflight, "builder", selectedWorkflowId, Ev("navBuild", "", FALSE, JsUndef, JsUndef))

NavBuild == Go(inflight, "builder", NULL, Ev("navBuild", "", FALSE, JsUndef, JsUndef))

NavExecute ==
  Go(inflight, "executor", selectedWorkflowId, Ev("navExecute", "", FALSE, JsUndef, JsUndef))

(* ---------------------------- WorkflowList ---------------------------- *)

\* neither the spinner nor the error panel is returned: the list is rendered
ListShown == view = "list" /\ ~list.loading /\ list.error = NULL

\* "Create New" / "Create Your First Workflow" (id "") and a row's Edit
onEdit ==
  \E id \in {""} \cup Range(list.workflows) :
    /\ ListShown
    /\ Go(inflight, "builder", id, Ev("onEdit", "", FALSE, JsUndef, [id |-> id]))

\* a row's Run
onExecute ==
  \E id \in Range(list.workflows) :
    /\ ListShown
    /\ Go(inflight, "executor", id, Ev("onExecute", "", FALSE, JsUndef, JsUndef))

\* loadWorkflows after its await resolved with data, in WorkflowList and in
\* WorkflowExecutor
ListResolved(r, data) ==
  /\ list' = IF r.live /\ view = "list"
             THEN [list EXCEPT !.workflows = data, !.error = NULL, !.loading = FALSE]
             ELSE list
  /\ executor' = IF r.live /\ view = "executor"
                 THEN [executor EXCEPT !.workflows = data]
                 ELSE executor
  /\ last' = Ev("loadWorkflows", "ok", ~r.live, JsUndef, r.arg)

\* loadWorkflows after its await threw err
ListThrown(r, err) ==
  /\ list' = IF r.live /\ view = "list"
             THEN [list EXCEPT
                     !.error = JsOr(Field(err, "message"), JsStr("Failed to load workflows")).s,
                     !.loading = FALSE]
             ELSE list
  /\ UNCHANGED executor
  /\ last' = Ev("loadWorkflows", "fail", ~r.live, JsUndef, r.arg)

\* the list request r leaves the requests in flight
ListDone(r) ==
  /\ r.kind = "list"
  /\ inflight' = Remove(inflight, r)
  /\ UNCHANGED <<card, service, view, selectedWorkflowId, builder>>

\* loadWorkflows after its await, the service answering anything of lists
CompleteList(lists) ==
  \E r \in DOMAIN inflight :
    /\ ListDone(r)
    /\ \/ \E data \in lists : ListResolved(r, data)
       \/ \E err \in Errs : ListThrown(r, err)

\* loadWorkflows after its await, on the response the service has given
DeliverList ==
  \E r \in DOMAIN inflight :
    /\ r.resp # Unserved
    /\ ListDone(r)
    /\ IF r.resp.ok THEN ListResolved(r, r.resp.data.listing) ELSE ListThrown(r, r.resp.err)

\* (mutant) the confirmation is never taken as declined
DeleteNeverDeclined(confirmed) == FALSE

\* if (!confirm("Are you sure you want to delete this workflow?")) return;
DeleteDeclined(confirmed) == ~confirmed

\* handleDelete up to its first await: confirm, then the delete request; the
\* history keeps the id of the row and what the user answered
handleDelete ==
  \E id \in Range(list.workflows), confirmed \in BOOLEAN :
    /\ ListShown
    /\ UNCHANGED <<card, service, view, selectedWorkflowId, list, builder, executor>>
    /\ last' = Ev("handleDelete", IF confirmed THEN "confirmed" ELSE "declined",
                  FALSE, JsUndef, [id |-> id])
    /\ IF DeleteDeclined(confirmed)
       THEN UNCHANGED inflight
       ELSE /\ Room(inflight, 1)
            /\ inflight' = Add(inflight, Req("delete", id, NoArg))

\* handleDelete after `await workflowAPI.delete(id)` resolved: loadWorkflows
\* up to its await (the reload after the delete of r.id)
DeleteResolved(r) ==
  /\ inflight' = Add(Remove(inflight, r),
                     [Req("list", "", [after |-> r.id]) EXCEPT !.live = r.live])
  /\ list' = IF r.live THEN [list EXCEPT !.loading = TRUE] ELSE list
  /\ last' = Ev("handleDelete", "ok", ~r.live, JsUndef, JsUndef)

\* (mutant) a catch that reloads the list as the success path does
DeleteThrownReloads(r, err) ==
  /\ inflight' = Add(Remove(inflight, r),
                     [Req("list", "", [after |-> r.id]) EXCEPT !.live = r.live])
  /\ list' = IF r.live THEN [list EXCEPT !.loading = TRUE] ELSE list
  /\ last' = Ev("handleDelete", "fail", ~r.live,
                JsOr(Field(err, "message"), JsStr("Failed to delete workflow")), JsUndef)

\* handleDelete after its await threw err: the catch
DeleteThrown(r, err) ==
  /\ inflight' = Remove(inflight, r)
  /\ UNCHANGED list
  /\ last' = Ev("handleDelete", "fail", ~r.live,
                JsOr(Field(err, "message"), JsStr("Failed to delete workflow")), JsUndef)

DeleteDone(r) ==
  /\ r.kind = "delete"
  /\ UNCHANGED <<card, service, view, selectedWorkflowId, builder, executor>>

\* handleDelete after its await, the service answering anything
CompleteDelete ==
  \E r \in DOMAIN inflight :
    /\ DeleteDone(r)
    /\ \/ DeleteResolved(r)
       \/ \E err \in Errs : DeleteThrown(r, err)

\* handleDelete after its await, on the response the service has given
DeliverDelete ==
  \E r \in DOMAIN inflight :
    /\ r.resp # Unserved
    /\ DeleteDone(r)
    /\ IF r.resp.ok THEN DeleteResolved(r) ELSE DeleteThrown(r, r.resp.err)

(* -------------------------- WorkflowExecutor -------------------------- *)

\* the <select>: "Choose a workflow..." (value "") or a loaded workflow
SelectWorkflow ==
  \E id \in {""} \cup Range(executor.workflows) :
    /\ view = "executor"
    /\ executor' = [executor EXCEPT !.selectedId = id]
    /\ UNCHANGED <<card, service, view, selectedWorkflowId, list, builder, inflight>>
    /\ last' = Ev("setSelectedId", "", FALSE, JsUndef, JsUndef)

\* the <textarea>
SetInput(texts) ==
  \E t \in texts :
    /\ view = "executor"
    /\ executor' = [executor EXCEPT !.input = t]
    /\ UNCHANGED <<card, service, view, selectedWorkflowId, list, builder, inflight>>
    /\ last' = Ev("setInput", "", FALSE, JsUndef, JsUndef)

\* the Execute button's disabled attribute
ExecuteDisabled(e) == e.executing \/ ~TruthyStr(e.selectedId) \/ Trim(e.input) = <<>>

\* (mutant) the guard without trim: !selectedId || !input
ExecuteRejectedNoTrim(e) == ~TruthyStr(e.selectedId) \/ e.input = <<>>

\* handleExecute's guard: !selectedId || !input.trim()
ExecuteRejected(e) == ~TruthyStr(e.selectedId) \/ Trim(e.input) = <<>>

\* (mutant) setExecuting(true) without setResult(null)
ExecuteStartKeepsResult(e) == [e EXCEPT !.executing = TRUE]

\* setExecuting(true); setResult(null)
ExecuteStart(e) == [e EXCEPT !.executing = TRUE, !.result = JsNull]

\* setResult(data), then finally: setExecuting(false)
ExecuteOk(e, data) == [e EXCEPT !.result = data, !.executing = FALSE]

\* (mutant) the transport message before the server's
ExecuteErrorMessageFirst(err) ==
  JsOr(JsOr(Field(err, "message"), Field(Field(Field(err, "response"), "data"), "error")),
       JsStr("Execution failed"))

\* err.response?.data?.error || err.message || "Execution failed"
ExecuteError(err) ==
  JsOr(JsOr(Field(Field(Field(err, "response"), "data"), "error"), Field(err, "message")),
       JsStr("Execution failed"))

\* the catch, then finally: setExecuting(false)
ExecuteFail(e, err) ==
  [e EXCEPT !.result = JsObj([error |-> ExecuteError(err)]), !.executing = FALSE]

\* handleExecute up to its await
handleExecute ==
  /\ view = "executor"
  /\ UNCHANGED <<card, service, view, selectedWorkflowId, list, builder>>
  /\ IF ExecuteRejected(executor)
     THEN /\ UNCHANGED <<executor, inflight>>
          /\ last' = Ev("handleExecute", "rejected", FALSE,
                        JsStr("Please select a workflow and provide input"), JsUndef)
     ELSE /\ Room(inflight, 1)
          /\ executor' = ExecuteStart(executor)
          /\ inflight' = Add(inflight, Req("execute", executor.selectedId,
                                           [input |-> executor.input]))
          /\ last' = Ev("handleExecute", "started", FALSE, JsUndef, JsUndef)

\* a click on the Execute button
ClickExecute == ~ExecuteDisabled(executor) /\ handleExecute

\* handleExecute called whatever the button's disabled attribute says
DirectExecute == handleExecute

\* handleExecute after `await workflowAPI.execute(selectedId, input)`; the
\* setters do nothing when the instance that issued r is no longer mounted
CompleteExecute(bodies, errs) ==
  \E r \in DOMAIN inflight :
    /\ r.kind = "execute"
    /\ inflight' = Remove(inflight, r)
    /\ UNCHANGED <<card, service, view, selectedWorkflowId, list, builder>>
    /\ \/ \E data \in bodies :
            /\ executor' = IF r.live THEN ExecuteOk(executor, data) ELSE executor
            /\ last' = Ev("handleExecute", "ok", ~r.live, JsUndef, data)
       \/ \E err \in errs :
            /\ executor' = IF r.live THEN ExecuteFail(executor, err) ELSE executor
            /\ last' = Ev("handleExecute", "fail", ~r.live, JsUndef, err)

\* (mutant) the log panel rendered for any log there is, empty or not
RenderResultAnyLog(result) ==
  LET none == [error |-> <<>>, output |-> <<>>, log |-> <<>>, summary |-> <<>>]
      log == Field(result, "execution_log")
      summary == Field(result, "summary")
  IN IF ~Truthy(result) THEN none
     ELSE IF Truthy(Field(result, "error"))
     THEN [none EXCEPT !.error = <<Field(result, "error")>>]
     ELSE [error |-> <<>>,
           output |-> <<JsOr(Field(Field(result, "final_state"), "last_response_content"),
                             JsStr("No output"))>>,
           log |-> IF Truthy(log) THEN <<log.a>> ELSE <<>>,
           summary |-> IF Truthy(summary)
                       THEN <<[nodes_executed |-> Field(summary, "nodes_executed"),
                               status |-> IF Truthy(Field(summary, "has_error"))
                                          THEN "Failed" ELSE "Success"]>>
                       ELSE <<>>]

\* What the result block (the JSX under `{result && (`) renders: each panel is
\* <<>> when it is not rendered and <<its content>> when it is.
RenderResult(result) ==
  LET none == [error |-> <<>>, output |-> <<>>, log |-> <<>>, summary |-> <<>>]
      log == Field(result, "execution_log")
      summary == Field(result, "summary")
  IN IF ~Truthy(result) THEN none
     ELSE IF Truthy(Field(result, "error"))
     THEN [none EXCEPT !.error = <<Field(result, "error")>>]
     ELSE [error |-> <<>>,
           output |-> <<JsOr(Field(Field(result, "final_state"), "last_response_content"),
                             JsStr("No output"))>>,
           log |-> IF Truthy(log) /\ Len(log.a) > 0 THEN <<log.a>> ELSE <<>>,
           summary |-> IF Truthy(summary)
                       THEN <<[nodes_executed |-> Field(summary, "nodes_executed"),
                               status |-> IF Truthy(Field(summary, "has_error"))
                                          THEN "Failed" ELSE "Success"]>>
                       ELSE <<>>]

(* --------------------------- WorkflowBuilder -------------------------- *)

\* GET /workflows/{id} answers
NodeOf(name, prompt, target) ==
  [name |-> name, prompt |-> prompt,
   routing_rules |-> [default_target |-> target, conditional_targets |-> <<>>]]

\* a stored node that has conditional targets (the builder shows and edits
\* none of them)
StoredNode ==
  [NodeOf("Node 1", "p", "END") EXCEPT !.routing_rules.conditional_targets = <<"c1">>]

GetBodies ==
  {[name |-> <<"a">>, description |-> ABSENT, nodes |-> <<>>],
   [name |-> <<"a">>, description |-> "d", nodes |-> <<StoredNode>>]}

setName(texts) ==
  \E t \in texts :
    /\ view = "builder"
    /\ builder' = [builder EXCEPT !.name = t]
    /\ UNCHANGED <<card, service, view, selectedWorkflowId, list, executor, inflight>>
    /\ last' = Ev("setName", "", FALSE, JsUndef, JsUndef)

setDescription ==
  \E d \in {"", "d"} :
    /\ view = "builder"
    /\ builder' = [builder EXCEPT !.description = d]
    /\ UNCHANGED <<card, service, view, selectedWorkflowId, list, executor, inflight>>
    /\ last' = Ev("setDescription", "", FALSE, JsUndef, JsUndef)

\* (mutant) the new node named after nodes.length
NewNodeNamedByLength(nodes) == NodeOf("Node " \o ToString(Len(nodes)), "", "END")

\* (mutant) filter((_, i) => i !== index + 1)
RemoveNodeAfter(nodes, index) ==
  [k \in 1..(Len(nodes) - 1) |-> IF k < index + 2 THEN nodes[k] ELSE nodes[k + 1]]

\* (mutant) updated[index] = { [field]: value } over a fresh node, without the
\* spread of the node that was there
UpdateNodeInFresh(nodes, index, field, value) ==
  [nodes EXCEPT ![index + 1] = [NodeOf("", "", "END") EXCEPT ![field] = value]]

\* `Node ${nodes.length + 1}`, empty prompt, default_target "END"
NewNode(nodes) == NodeOf("Node " \o ToString(Len(nodes) + 1), "", "END")

AddNodeTo(nodes) == Append(nodes, NewNode(nodes))

\* index is 0-based, as in the source
UpdateNodeIn(nodes, index, field, value) ==
  [nodes EXCEPT ![index + 1] = [@ EXCEPT ![field] = value]]

RemoveNodeFrom(nodes, index) ==
  [k \in 1..(Len(nodes) - 1) |-> IF k < index + 1 THEN nodes[k] ELSE nodes[k + 1]]

\* addNode on a draft of fewer than max nodes
addNodeUpTo(max) ==
  /\ view = "builder"
  /\ Len(builder.nodes) < max
  /\ builder' = [builder EXCEPT !.nodes = AddNodeTo(builder.nodes)]
  /\ UNCHANGED <<card, service, view, selectedWorkflowId, list, executor, inflight>>
  /\ last' = Ev("addNode", "", FALSE, JsUndef, JsUndef)

addNode == addNodeUpTo(MaxNodes)

removeNode ==
  \E index \in 0..(Len(builder.nodes) - 1) :
    /\ view = "builder"
    /\ builder' = [builder EXCEPT !.nodes = RemoveNodeFrom(builder.nodes, index)]
    /\ UNCHANGED <<card, service, view, selectedWorkflowId, list, executor, inflight>>
    /\ last' = Ev("removeNode", "", FALSE, JsUndef,
                  [index |-> index, removed |-> builder.nodes[index + 1]])

\* what the node inputs are given to type
NodeTexts == {"", "x"}

\* (mutant) the Default Target input without the spread of routing_rules
DefaultTargetAlone(rules, text) == [default_target |-> text]

\* { ...node.routing_rules, default_target: e.target.value }
DefaultTargetValue(rules, text) == [rules EXCEPT !.default_target = text]

\* updateNode as the three inputs of a node card call it: Node Name and
\* Prompt pass the text, Default Target passes DefaultTargetValue
updateNode ==
  \E index \in 0..(Len(builder.nodes) - 1), input \in {"name", "prompt", "default_target"},
     text \in NodeTexts :
    LET node == builder.nodes[index + 1]
        field == IF input = "default_target" THEN "routing_rules" ELSE input
        value == IF input = "default_target"
                 THEN DefaultTargetValue(node.routing_rules, text)
                 ELSE text
    IN /\ view = "builder"
       /\ builder' = [builder EXCEPT !.nodes = UpdateNodeIn(builder.nodes, index, field, value)]
       /\ UNCHANGED <<card, service, view, selectedWorkflowId, list, executor, inflight>>
       /\ last' = Ev("updateNode", "", FALSE, JsUndef,
                     [index |-> index, input |-> input, text |-> text])

\* (mutant) the guard without trim: !name
SaveRejectedNoTrim(b) == b.name = <<>>

\* handleSave's guard: !name.trim()
SaveRejected(b) == Trim(b.name) = <<>>

\* (mutant) the Workflow sent without the nodes
SavePayloadNoNodes(b) == [name |-> b.name, description |-> b.description, nodes |-> <<>>]

\* the Workflow sent: { name, description, nodes }
SavePayload(b) == [name |-> b.name, description |-> b.description, nodes |-> b.nodes]

\* handleSave up to its await
handleSave ==
  /\ view = "builder"
  /\ UNCHANGED <<card, service, view, selectedWorkflowId, list, executor>>
  /\ IF SaveRejected(builder)
     THEN /\ UNCHANGED <<builder, inflight>>
          /\ last' = Ev("handleSave", "rejected", FALSE, JsStr("Workflow name is required"),
                        JsUndef)
     ELSE /\ Room(inflight, 1)
          /\ builder' = [builder EXCEPT !.loading = TRUE]
          /\ inflight' =
               IF TruthyStr(selectedWorkflowId)
               THEN Add(inflight, Req("update", selectedWorkflowId, SavePayload(builder)))
               ELSE Add(inflight, Req("create", "", SavePayload(builder)))
          /\ last' = Ev("handleSave", "started", FALSE, JsUndef, JsUndef)

\* a click on "Save Workflow" (disabled={loading})
ClickSave == ~builder.loading /\ handleSave

\* the builder's Cancel button: onSaved, i.e. setView("list")
Cancel ==
  /\ view = "builder"
  /\ Go(inflight, "list", selectedWorkflowId, Ev("cancel", "", FALSE, JsUndef, JsUndef))

\* (mutant) a failed load that also runs the effect's reset
LoadFailResetsDraft(b) ==
  [b EXCEPT !.name = <<>>, !.description = "", !.nodes = <<>>, !.loading = FALSE]

\* loadWorkflow's catch (the alert only), then finally: setLoading(false)
LoadFail(b) == [b EXCEPT !.loading = FALSE]

\* (mutant) a load without setNodes(workflow.nodes)
LoadOkKeepsNodes(b, wf) ==
  [name |-> wf.name, description |-> StrOr(wf.description, ""), nodes |-> b.nodes,
   loading |-> FALSE]

\* setName(workflow.name); setDescription(workflow.description || "");
\* setNodes(workflow.nodes), then finally: setLoading(false)
LoadOk(b, wf) ==
  [name |-> wf.name, description |-> StrOr(wf.description, ""), nodes |-> wf.nodes,
   loading |-> FALSE]

\* (mutant) a failed save that discards the draft
SaveFailResetsDraft(b) ==
  [b EXCEPT !.name = <<>>, !.description = "", !.nodes = <<>>, !.loading = FALSE]

\* handleSave's catch (the alert only), then finally: setLoading(false)
SaveFail(b) == [b EXCEPT !.loading = FALSE]

\* loadWorkflow after `await workflowAPI.get(workflowId)` resolved with wf
GetResolved(r, wf) ==
  /\ builder' = IF r.live THEN LoadOk(builder, wf) ELSE builder
  /\ last' = Ev("loadWorkflow", "ok", ~r.live, JsUndef, wf)

\* loadWorkflow after its await threw err
GetThrown(r, err) ==
  /\ builder' = IF r.live THEN LoadFail(builder) ELSE builder
  /\ last' = Ev("loadWorkflow", "fail", ~r.live,
                JsOr(Field(err, "message"), JsStr("Failed to load workflow")), JsUndef)

GetDone(r) ==
  /\ r.kind = "get"
  /\ inflight' = Remove(inflight, r)
  /\ UNCHANGED <<card, service, view, selectedWorkflowId, list, executor>>

\* loadWorkflow after its await, the service answering anything of GetBodies
CompleteGet ==
  \E r \in DOMAIN inflight :
    /\ GetDone(r)
    /\ \/ \E wf \in GetBodies : GetResolved(r, wf)
       \/ \E err \in Errs : GetThrown(r, err)

\* loadWorkflow after its await, on the response the service has given
DeliverGet ==
  \E r \in DOMAIN inflight :
    /\ r.resp # Unserved
    /\ GetDone(r)
    /\ IF r.resp.ok THEN GetResolved(r, r.resp.data.workflow) ELSE GetThrown(r, r.resp.err)

\* handleSave after `await workflowAPI.update/create` resolved: onSaved(),
\* then finally setLoading(false)
SaveResolved(r) ==
  Go(Remove(inflight, r), "list", selectedWorkflowId,
     Ev("handleSave", "ok", ~r.live, JsUndef, JsUndef))

\* (mutant) a catch that issues the failed request again
SaveThrownRetries(r, err) ==
  /\ inflight' = Add(Remove(inflight, r), r)
  /\ UNCHANGED <<card, service, view, selectedWorkflowId, list, executor>>
  /\ builder' = builder
  /\ last' = Ev("handleSave", "fail", ~r.live,
                JsOr(Field(err, "message"), JsStr("Failed to save workflow")), JsUndef)

\* handleSave after its await threw err: the catch, then finally
SaveThrown(r, err) ==
  /\ inflight' = Remove(inflight, r)
  /\ UNCHANGED <<card, service, view, selectedWorkflowId, list, executor>>
  /\ builder' = IF r.live THEN SaveFail(builder) ELSE builder
  /\ last' = Ev("handleSave", "fail", ~r.live,
                JsOr(Field(err, "message"), JsStr("Failed to save workflow")), JsUndef)

\* handleSave after its await, the service answering anything
CompleteSave ==
  \E r \in DOMAIN inflight :
    /\ r.kind \in {"create", "update"}
    /\ \/ SaveResolved(r)
       \/ \E err \in Errs : SaveThrown(r, err)

\* handleSave after its await, on the response the service has given
DeliverSave ==
  \E r \in DOMAIN inflight :
    /\ r.kind \in {"create", "update"}
    /\ r.resp # Unserved
    /\ IF r.resp.ok THEN SaveResolved(r) ELSE SaveThrown(r, r.resp.err)

(* --------------------------- specifications --------------------------- *)

(* --------------------- a service that stores -------------------------- *)

(* --------------------------- LLMStatusCard ---------------------------- *)

\* HomePage renders the card above whichever view is shown, so it is mounted
\* once and never unmounted: its requests are kept apart from the views'
\* (no view change makes them stale).

RequestInit == [loading |-> FALSE, error |-> NULL, successMessage |-> NULL]

\* GET /llm/status answers: an LLMStatus
StatusBody(key, initialized) ==
  JsObj([api_key_configured |-> JsBool(key), llm_initialized |-> JsBool(initialized),
         model_name |-> JsStr("m"), temperature |-> JsNum(0)])

StatusBodies == {StatusBody(k, i) : k, i \in BOOLEAN}

\* POST /llm/initialize answers: { message }, the message missing, empty or
\* a text
InitializeBodies ==
  {JsObj([k \in {} |-> JsUndef]), JsObj([message |-> JsStr("")]),
   JsObj([message |-> JsStr("ready")])}

\* what a failed request of the card throws: `err?.message` is read, so err
\* may be null, or an Error whose message is missing, empty or a text
LLMErrs == {JsNull} \cup {ErrObj(ABSENT, m) : m \in {ABSENT, "", "Network Error"}}

\* a request of the card, with what caused it: the mount effect, a click,
\* or the handleInitialize that went on to loadStatus
LReq(kind, cause) == [kind |-> kind, cause |-> cause]

\* (mutant) buttons that are never disabled
ActionsNeverDisabled(rs) == FALSE

\* disabled={requestState.loading}, on both buttons
ActionsDisabled(rs) == rs.loading

\* setRequestState((prev) => ({ ...prev, loading: true, error: null }))
LoadStatusStart(rs) == [rs EXCEPT !.loading = TRUE, !.error = NULL]

\* setRequestState((prev) => ({ ...prev, loading: false }))
LoadStatusOk(rs) == [rs EXCEPT !.loading = FALSE]

\* err?.message || "Failed to load LLM status"
LoadStatusFail(err) ==
  [loading |-> FALSE,
   error |-> JsOr(Field(err, "message"), JsStr("Failed to load LLM status")).s,
   successMessage |-> NULL]

InitializeStart == [loading |-> TRUE, error |-> NULL, successMessage |-> NULL]

\* response.message || "LLM initialized successfully"
InitializeOk(response) ==
  [loading |-> FALSE, error |-> NULL,
   successMessage |->
     JsOr(Field(response, "message"), JsStr("LLM initialized successfully")).s]

\* (mutant) a catch that reports success as well
InitializeFailWithSuccess(err) ==
  [loading |-> FALSE,
   error |-> JsOr(Field(err, "message"), JsStr("Failed to initialize LLM")).s,
   successMessage |-> "LLM initialized successfully"]

\* err?.message || "Failed to initialize LLM"
InitializeFail(err) ==
  [loading |-> FALSE,
   error |-> JsOr(Field(err, "message"), JsStr("Failed to initialize LLM")).s,
   successMessage |-> NULL]

\* the card's requests are bounded like the views'
LLMRoom == BagCardinality(llmInflight) < MaxInflight

\* loadStatus up to its await, called for this cause
loadStatus(cause) ==
  /\ LLMRoom
  /\ requestState' = LoadStatusStart(requestState)
  /\ llmInflight' = Add(llmInflight, LReq("status", cause))
  /\ UNCHANGED <<status, service, view, selectedWorkflowId, list, builder, executor, inflight>>
  /\ last' = Ev("loadStatus", "started", FALSE, JsUndef, [cause |-> cause])

\* a click on "Refresh Status"
ClickRefreshStatus == ~ActionsDisabled(requestState) /\ loadStatus("click")

\* loadStatus after `await llmAPI.getStatus()`, the service answering anything
\* of bodies or failing with anything of errs
CompleteStatus(bodies, errs) ==
  \E r \in DOMAIN llmInflight :
    /\ r.kind = "status"
    /\ llmInflight' = Remove(llmInflight, r)
    /\ UNCHANGED <<service, view, selectedWorkflowId, list, builder, executor, inflight>>
    /\ \/ \E data \in bodies :
            /\ status' = data
            /\ requestState' = LoadStatusOk(requestState)
            /\ last' = Ev("loadStatus", "ok", FALSE, JsUndef, [cause |-> r.cause])
       \/ \E err \in errs :
            /\ UNCHANGED status
            /\ requestState' = LoadStatusFail(err)
            /\ last' = Ev("loadStatus", "fail", FALSE, JsUndef,
                          [cause |-> r.cause, err |-> err])

\* a click on "Initialize / Refresh": handleInitialize up to its await
ClickInitialize ==
  /\ ~ActionsDisabled(requestState)
  /\ LLMRoom
  /\ requestState' = InitializeStart
  /\ llmInflight' = Add(llmInflight, LReq("initialize", "click"))
  /\ UNCHANGED <<status, service, view, selectedWorkflowId, list, builder, executor, inflight>>
  /\ last' = Ev("handleInitialize", "started", FALSE, JsUndef, JsUndef)

\* handleInitialize after `await llmAPI.initialize()`: the success message,
\* then loadStatus up to its await, in one commit; or the catch
CompleteInitialize(bodies, errs) ==
  \E r \in DOMAIN llmInflight :
    /\ r.kind = "initialize"
    /\ UNCHANGED <<status, service, view, selectedWorkflowId, list, builder, executor, inflight>>
    /\ \/ \E response \in bodies :
            /\ requestState' = LoadStatusStart(InitializeOk(response))
            /\ llmInflight' = Add(Remove(llmInflight, r), LReq("status", "initialize"))
            /\ last' = Ev("handleInitialize", "ok", FALSE, JsUndef, response)
       \/ \E err \in errs :
            /\ requestState' = InitializeFail(err)
            /\ llmInflight' = Remove(llmInflight, r)
            /\ last' = Ev("handleInitialize", "fail", FALSE, JsUndef, err)

\* the card after its mount effect: the first status request is in flight
CardMounted ==
  /\ status = JsNull
  /\ requestState = LoadStatusStart(RequestInit)
  /\ llmInflight = SetToBag({LReq("status", "mount")})

\* the card once that first request has been answered with a status, which
\* is how it stands where the views alone are explored
CardSettled ==
  /\ status = StatusBody(TRUE, TRUE)
  /\ requestState = LoadStatusOk(LoadStatusStart(RequestInit))
  /\ llmInflight = EmptyBag

(* ------------------------ persistence service ------------------------- *)

\* A persistence service that stores what it receives and answers from what
\* it holds. It processes a request at some moment between the request and
\* the arrival of its response (Serve), so responses may arrive in another
\* order than the requests were processed in.

\* the ids the service gives to created workflows, in listing order
Ids == <<"w1", "w2">>

\* what the service keeps of a deleted workflow: its id, never given again
Gone == [gone |-> TRUE]

StoredIds == {id \in DOMAIN service : service[id] # Gone}

\* GET /workflows
Listing == SelectSeq(Ids, LAMBDA id : id \in StoredIds)

Holding(id, wf) == [x \in DOMAIN service \cup {id} |-> IF x = id THEN wf ELSE service[x]]

UnusedIds == SelectSeq(Ids, LAMBDA id : id \notin DOMAIN service)

\* a response: data is a record with the body under a field of its own name
Resolves(data) == [ok |-> TRUE, data |-> data]

Rejects(err) == [ok |-> FALSE, err |-> err]

\* request r now has its response
Answer(r, resp) == Add(Remove(inflight, r), [r EXCEPT !.resp = resp])

\* The service processes one request: it answers it from what it holds and
\* stores or deletes what the request says, or rejects it (a get, update or
\* delete of an id it does not hold can only be rejected).
Serve ==
  \E r \in DOMAIN inflight :
    /\ r.resp = Unserved
    /\ UNCHANGED <<card, view, selectedWorkflowId, list, builder, executor>>
    /\ last' = Ev("serve", r.kind, FALSE, JsUndef, JsUndef)
    /\ \/ /\ r.kind = "list"
          /\ inflight' = Answer(r, Resolves([listing |-> Listing]))
          /\ UNCHANGED service
       \/ /\ r.kind = "get"
          /\ r.id \in StoredIds
          /\ inflight' = Answer(r, Resolves([workflow |-> service[r.id]]))
          /\ UNCHANGED service
       \/ /\ r.kind = "create"
          /\ UnusedIds # <<>>
          /\ inflight' = Answer(r, Resolves([id |-> UnusedIds[1]]))
          /\ service' = Holding(UnusedIds[1], r.arg)
       \/ /\ r.kind = "update"
          /\ r.id \in StoredIds
          /\ inflight' = Answer(r, Resolves([id |-> r.id]))
          /\ service' = Holding(r.id, r.arg)
       \/ /\ r.kind = "delete"
          /\ r.id \in StoredIds
          /\ inflight' = Answer(r, Resolves(NoArg))
          /\ service' = Holding(r.id, Gone)
       \/ \E err \in Errs :
            /\ inflight' = Answer(r, Rejects(err))
            /\ UNCHANGED service

\* HomePage's first render: the list screen, whose mount effect has issued
\* its list request
Init ==
  /\ view = "list"
  /\ selectedWorkflowId = NULL
  /\ list = ListInit
  /\ builder = BuilderInit
  /\ executor = ExecutorInit
  /\ inflight = SetToBag({Req("list", "", NoArg)})
  /\ service = NoService
  /\ CardSettled
  /\ last = Ev("init", "", FALSE, JsUndef, JsUndef)

Next ==
  \/ NavWorkflows
  \/ NavBuild
  \/ NavExecute
  \/ onEdit
  \/ onExecute
  \/ CompleteList(SomeLists)
  \/ handleDelete
  \/ CompleteDelete
  \/ SelectWorkflow
  \/ SetInput(SomeTexts)
  \/ ClickExecute
  \/ CompleteExecute(SomeBodies, SomeErrs)
  \/ setName(SomeTexts)
  \/ addNode
  \/ ClickSave
  \/ Cancel
  \/ CompleteGet
  \/ CompleteSave

Spec == Init /\ [][Next]_vars

\* The executor alone, opened by a row's Run once the list screen's own
\* request has completed.
InitExecutor ==
  /\ view = "executor"
  /\ selectedWorkflowId = "w1"
  /\ list = ListInit
  /\ builder = BuilderInit
  /\ executor = ExecutorEffect(ExecutorInit, "w1")
  /\ inflight = SetToBag({Req("list", "", NoArg)})
  /\ service = NoService
  /\ CardSettled
  /\ last = Ev("onExecute", "", FALSE, JsUndef, JsUndef)

\* ... with handleExecute also called directly, past the button's disabled
\* attribute, on every text of the bounded length
NextDirect ==
  \/ CompleteList(SomeLists)
  \/ SelectWorkflow
  \/ SetInput(Text)
  \/ ClickExecute
  \/ DirectExecute
  \/ CompleteExecute(SomeBodies, SomeErrs)

SpecDirect == InitExecutor /\ [][NextDirect]_vars

\* ... against a service that may answer an execute request with any body
\* and fail it with any error
NextResponses ==
  \/ CompleteList(SomeLists)
  \/ SelectWorkflow
  \/ SetInput(SomeTexts)
  \/ ClickExecute
  \/ CompleteExecute(AllBodies, ExecuteErrs)

SpecResponses == InitExecutor /\ [][NextResponses]_vars

\* The builder alone, opened by the Build button or by a row's Edit once the
\* list screen's own request has completed, on every text of the bounded
\* length.
InitBuilder ==
  /\ view = "builder"
  /\ service = NoService
  /\ CardSettled
  /\ list = ListInit
  /\ executor = ExecutorInit
  /\ \/ /\ selectedWorkflowId = NULL
        /\ builder = BuilderEffect(BuilderInit, NULL)
        /\ inflight = EmptyBag
        /\ last = Ev("navBuild", "", FALSE, JsUndef, JsUndef)
     \/ /\ selectedWorkflowId = "w1"
        /\ builder = BuilderEffect(BuilderInit, "w1")
        /\ inflight = SetToBag({Req("get", "w1", NoArg)})
        /\ last = Ev("onEdit", "", FALSE, JsUndef, JsUndef)

NextBuilder ==
  \/ setName(Text)
  \/ setDescription
  \/ addNode
  \/ removeNode
  \/ ClickSave
  \/ CompleteGet
  \/ CompleteSave

SpecBuilder == InitBuilder /\ [][NextBuilder]_vars

\* The node editor alone: the draft of a builder opened by the Build button
\* under addNode, updateNode and removeNode.
InitNodes ==
  /\ view = "builder"
  /\ selectedWorkflowId = NULL
  /\ list = ListInit
  /\ builder = BuilderEffect(BuilderInit, NULL)
  /\ executor = ExecutorInit
  /\ inflight = EmptyBag
  /\ service = NoService
  /\ CardSettled
  /\ last = Ev("navBuild", "", FALSE, JsUndef, JsUndef)

NextNodes ==
  \/ addNodeUpTo(MaxDraft)
  \/ updateNode
  \/ removeNode

SpecNodes == InitNodes /\ [][NextNodes]_vars

\* The node editor alone, on the draft of a builder opened by a row's Edit
\* whose load has completed with the workflow that has a node.
InitLoaded ==
  /\ view = "builder"
  /\ selectedWorkflowId = "w1"
  /\ list = ListInit
  /\ builder = LoadOk(BuilderEffect(BuilderInit, "w1"),
                      [name |-> <<"a">>, description |-> "d", nodes |-> <<StoredNode>>])
  /\ executor = ExecutorInit
  /\ inflight = EmptyBag
  /\ service = NoService
  /\ CardSettled
  /\ last = Ev("loadWorkflow", "ok", FALSE, JsUndef, JsUndef)

SpecLoaded == InitLoaded /\ [][NextNodes]_vars

(* ------------------------------- claims ------------------------------- *)

\* a text with nothing but whitespace in it (the empty text included)
Blank(t) == \A i \in DOMAIN t : t[i] = " "

IsObject(v) == v.t = "object"

HasField(v, k) == IsObject(v) /\ k \in DOMAIN v.f

\* The whole page from its first render, the card included, with one text to
\* type and one answer and one error for the requests whose answers are drawn
\* from sets: every way a request is issued is among the steps.
InitPage ==
  /\ view = "list"
  /\ selectedWorkflowId = NULL
  /\ list = ListInit
  /\ builder = BuilderInit
  /\ executor = ExecutorInit
  /\ inflight = SetToBag({Req("list", "", NoArg)})
  /\ service = NoService
  /\ CardMounted
  /\ last = Ev("init", "", FALSE, JsUndef, JsUndef)

\* the one error a failed request of a view throws there
PageErr == ErrObj(ABSENT, ABSENT)

\* loadWorkflows after its await: the listing of w1, or PageErr
PageList ==
  \E r \in DOMAIN inflight :
    /\ ListDone(r)
    /\ \/ ListResolved(r, <<"w1">>)
       \/ ListThrown(r, PageErr)

\* handleDelete after its await
PageDelete ==
  \E r \in DOMAIN inflight :
    /\ DeleteDone(r)
    /\ \/ DeleteResolved(r)
       \/ DeleteThrown(r, PageErr)

\* loadWorkflow after its await: a workflow without nodes, or PageErr
PageGet ==
  \E r \in DOMAIN inflight :
    /\ GetDone(r)
    /\ \/ GetResolved(r, [name |-> <<"a">>, description |-> ABSENT, nodes |-> <<>>])
       \/ GetThrown(r, PageErr)

\* handleSave after its await
PageSave ==
  \E r \in DOMAIN inflight :
    /\ r.kind \in {"create", "update"}
    /\ \/ SaveResolved(r)
       \/ SaveThrown(r, PageErr)

NextPage ==
  \/ NavWorkflows
  \/ NavBuild
  \/ NavExecute
  \/ onEdit
  \/ onExecute
  \/ PageList
  \/ handleDelete
  \/ PageDelete
  \/ SetInput({<<"a">>})
  \/ ClickExecute
  \/ CompleteExecute({JsNull}, {PageErr})
  \/ setName({<<"a">>})
  \/ ClickSave
  \/ Cancel
  \/ PageGet
  \/ PageSave
  \/ ClickRefreshStatus
  \/ ClickInitialize
  \/ CompleteStatus({StatusBody(TRUE, TRUE)}, {JsNull})
  \/ CompleteInitialize({JsObj([message |-> JsStr("ready")])}, {JsNull})

SpecPage == InitPage /\ [][NextPage]_vars

\* The executor alone, every execute request eventually completing (the view
\* stays mounted: no navigation is among the steps).
SpecFairResponses ==
  /\ InitExecutor
  /\ [][NextResponses]_vars
  /\ WF_vars(CompleteExecute(AllBodies, ExecuteErrs))

\* The LLM status card alone, from its mount.
InitLLM ==
  /\ view = "list"
  /\ selectedWorkflowId = NULL
  /\ list = ListInit
  /\ builder = BuilderInit
  /\ executor = ExecutorInit
  /\ inflight = SetToBag({Req("list", "", NoArg)})
  /\ service = NoService
  /\ CardMounted
  /\ last = Ev("init", "", FALSE, JsUndef, JsUndef)

NextLLM ==
  \/ ClickRefreshStatus
  \/ ClickInitialize
  \/ CompleteStatus(StatusBodies, LLMErrs)
  \/ CompleteInitialize(InitializeBodies, LLMErrs)

SpecLLM == InitLLM /\ [][NextLLM]_vars

\* The list screen against the service that stores, which holds two
\* workflows saved earlier.
InitService ==
  /\ view = "list"
  /\ selectedWorkflowId = NULL
  /\ list = ListInit
  /\ builder = BuilderInit
  /\ executor = ExecutorInit
  /\ inflight = SetToBag({Req("list", "", NoArg)})
  /\ service = [id \in {"w1", "w2"} |->
                  [name |-> <<"a">>, description |-> "d", nodes |-> <<StoredNode>>]]
  /\ CardSettled
  /\ last = Ev("init", "", FALSE, JsUndef, JsUndef)

\* the list screen and its deletes
NextDeletes ==
  \/ Serve
  \/ DeliverList
  \/ handleDelete
  \/ DeliverDelete

SpecDeletes == InitService /\ [][NextDeletes]_vars

\* Saving and loading against the service that stores, which starts with
\* nothing: the list screen's Create New and Edit, and the builder's edits,
\* save and load.
NextRoundTrip ==
  \/ Serve
  \/ DeliverList
  \/ onEdit
  \/ setName(SomeTexts)
  \/ setDescription
  \/ addNode
  \/ ClickSave
  \/ DeliverSave
  \/ DeliverGet

SpecRoundTrip == Init /\ [][NextRoundTrip]_vars

\* C1: whenever an execution is in progress (executing = true) the stored
\* result is empty (null), so no result of an earlier run is held while a new
\* run is in flight.
C1_NoResultWhileExecuting == executor.executing => executor.result = JsNull

\* C1 witness: a run has just been started
C1_Witness ==
  /\ view = "executor"
  /\ executor.executing
  /\ last.op = "handleExecute" /\ last.note = "started"

\* C2 (as claimed): for each of the actions execute and save, at most one
\* request of that action is in flight at any time, over every sequence of
\* user actions, navigation included.
C2_OneRequestPerAction ==
  /\ Pending({"execute"}) <= 1
  /\ Pending({"create", "update"}) <= 1

\* C3: handleExecute called with no selected workflow id, or with input that
\* is empty or whitespace-only, issues no request and leaves the stored result
\* and the executing flag (all of the executor's state) as they were; only the
\* validation message is reported.
C3_RejectedExecuteDoesNothing ==
  [][(/\ last'.op = "handleExecute"
      /\ last'.note \in {"rejected", "started"}
      /\ (executor.selectedId = "" \/ Blank(executor.input)))
     => (/\ inflight' = inflight
         /\ executor' = executor
         /\ last'.alert = JsStr("Please select a workflow and provide input"))]_vars

\* C3 witness: a call with whitespace-only input was rejected while a result
\* of an earlier run was stored
C3_Witness ==
  /\ last.op = "handleExecute" /\ last.note = "rejected"
  /\ executor.input # <<>> /\ Blank(executor.input)
  /\ executor.result # JsNull

\* a handleExecute step that ran after the await, for the mounted executor
Completed(l, note) == l.op = "handleExecute" /\ l.note = note /\ ~l.stale

\* the stored result is replaced only by the next handleExecute call, as long
\* as the executor stays mounted
ResultHeld ==
  (/\ view = "executor" /\ view' = "executor"
   /\ executor.result # JsNull
   /\ executor'.result # executor.result)
  => (last'.op = "handleExecute" /\ last'.note = "started")

\* C4 (as claimed): after an execute call has completed, whether the request
\* succeeded or failed and whatever the response body was, a non-empty result
\* is stored, and it stays unchanged until the next execute call replaces it.
C4_ResultHeldWhateverTheBody ==
  [][/\ (Completed(last', "ok") \/ Completed(last', "fail")) => executor'.result # JsNull
     /\ ResultHeld]_vars

\* the messages an error carries ("" when it carries none)
ServerMessage(err) ==
  IF /\ HasField(err, "response")
     /\ HasField(err.f.response, "data")
     /\ HasField(err.f.response.f.data, "error")
  THEN err.f.response.f.data.f.error.s
  ELSE ""

TransportMessage(err) == IF HasField(err, "message") THEN err.f.message.s ELSE ""

ExpectedError(err) ==
  IF ServerMessage(err) # "" THEN ServerMessage(err)
  ELSE IF TransportMessage(err) # "" THEN TransportMessage(err)
  ELSE "Execution failed"

\* C5: when an execute request fails, the stored result is { error: m } with m
\* the server's error message if there is one, otherwise the transport error's
\* message if there is one, otherwise "Execution failed"; m is never empty.
C5_ErrorMessagePriority ==
  Completed(last, "fail")
  => /\ executor.result = JsObj([error |-> JsStr(ExpectedError(last.data))])
     /\ executor.result.f.error.s # ""

\* C5 witness: a failure with no message at all stored the fallback
C5_Witness ==
  /\ Completed(last, "fail")
  /\ last.data = ErrObj(ABSENT, ABSENT)
  /\ executor.result = JsObj([error |-> JsStr("Execution failed")])

\* C6 (as claimed): every stored result that has an `error` field, whatever
\* its value, renders the error panel and none of the other three.
C6_ErrorFieldRendersOnlyError ==
  (view = "executor" /\ HasField(executor.result, "error"))
  => LET r == RenderResult(executor.result)
     IN /\ r.error = <<executor.result.f.error>>
        /\ r.output = <<>>
        /\ r.log = <<>>
        /\ r.summary = <<>>

\* the success panels but Final Output, as C7 states them
LogAndSummaryAsClaimed(result, r) ==
  /\ r.error = <<>>
  /\ r.log = IF HasField(result, "execution_log") /\ Len(result.f.execution_log.a) > 0
             THEN <<result.f.execution_log.a>>
             ELSE <<>>
  /\ r.summary =
       IF HasField(result, "summary")
       THEN <<[nodes_executed |-> result.f.summary.f.nodes_executed,
               status |-> IF /\ HasField(result.f.summary, "has_error")
                             /\ result.f.summary.f.has_error = JsBool(TRUE)
                          THEN "Failed" ELSE "Success"]>>
       ELSE <<>>

HasContent(result) ==
  /\ HasField(result, "final_state")
  /\ HasField(result.f.final_state, "last_response_content")

\* C7 (as claimed): for every stored success result, Final Output shows
\* last_response_content when present and "No output" when absent; the log
\* panel is rendered iff the log is present and non-empty, lines in order; the
\* summary panel iff summary is present, nodes_executed verbatim, "Failed" when
\* has_error is true and "Success" otherwise.
C7_SuccessPanelsContentWhenPresent ==
  (view = "executor" /\ IsObject(executor.result) /\ ~HasField(executor.result, "error"))
  => LET r == RenderResult(executor.result)
     IN /\ r.output = IF HasContent(executor.result)
                      THEN <<executor.result.f.final_state.f.last_response_content>>
                      ELSE <<JsStr("No output")>>
        /\ LogAndSummaryAsClaimed(executor.result, r)

\* C7 (amended): Final Output shows last_response_content when it is present
\* and not the empty string, and "No output" when it is absent or empty; the
\* log and summary panels as claimed.
C7_SuccessPanels ==
  (view = "executor" /\ IsObject(executor.result) /\ ~HasField(executor.result, "error"))
  => LET r == RenderResult(executor.result)
     IN /\ r.output =
             IF /\ HasContent(executor.result)
                /\ executor.result.f.final_state.f.last_response_content # JsStr("")
             THEN <<executor.result.f.final_state.f.last_response_content>>
             ELSE <<JsStr("No output")>>
        /\ LogAndSummaryAsClaimed(executor.result, r)

\* C7 witness: { final_state: {}, execution_log: [], summary: { nodes_executed:
\* 3, has_error: false } } is stored and renders "No output", no log panel, 3
\* and "Success"
C7_Witness ==
  /\ view = "executor"
  /\ executor.result =
       Body(<<>>, <<JsObj(<<>>)>>, <<JsArr(<<>>)>>,
            <<JsObj([nodes_executed |-> JsNum(3), has_error |-> JsBool(FALSE)])>>)
  /\ RenderResult(executor.result) =
       [error |-> <<>>, output |-> <<JsStr("No output")>>, log |-> <<>>,
        summary |-> <<[nodes_executed |-> JsNum(3), status |-> "Success"]>>]

\* C8 (as claimed): the completion of a request whose initiating view has been
\* left changes neither the active view, nor the selected workflow id, nor any
\* state of the view now displayed.
C8_StaleCompletionChangesNothing ==
  [][last'.stale
     => /\ view' = view
        /\ selectedWorkflowId' = selectedWorkflowId
        /\ list' = list
        /\ builder' = builder
        /\ executor' = executor]_vars

Draft(b) == <<b.name, b.description, b.nodes>>

\* C9 (as claimed): once the builder has been given no workflowId, its draft
\* changes only through the user's own edits (or through being reset again by
\* the Build button); no response to an earlier load populates it.
C9_DraftChangesOnlyByEdits ==
  [][(/\ view = "builder" /\ view' = "builder"
      /\ ~TruthyStr(selectedWorkflowId) /\ ~TruthyStr(selectedWorkflowId')
      /\ Draft(builder') # Draft(builder))
     => last'.op \in {"setName", "setDescription", "addNode", "updateNode", "removeNode",
                      "navBuild"}]_vars

\* C10: handleSave with a name that is empty or whitespace-only issues no
\* request, does not call onSaved (the view stays), reports the validation
\* error and leaves the draft and the loading flag as they were.
C10_RejectedSaveDoesNothing ==
  [][(/\ last'.op = "handleSave"
      /\ last'.note \in {"rejected", "started"}
      /\ Blank(builder.name))
     => (/\ inflight' = inflight
         /\ view' = view
         /\ builder' = builder
         /\ last'.alert = JsStr("Workflow name is required"))]_vars

\* C10 witness: a save of a draft with a whitespace-only name and a node was
\* rejected
C10_Witness ==
  /\ view = "builder"
  /\ last.op = "handleSave" /\ last.note = "rejected"
  /\ builder.name # <<>> /\ Blank(builder.name)
  /\ builder.nodes # <<>>

\* the one request a save of draft b by a builder given workflowId w issues
ExpectedSave(w, b) ==
  LET draft == [name |-> b.name, description |-> b.description, nodes |-> b.nodes]
  IN IF w = NULL \/ w = "" THEN Req("create", "", draft) ELSE Req("update", w, draft)

SaveStep(l, note) == l.op = "handleSave" /\ l.note = note

\* C11: handleSave with a non-empty trimmed name issues exactly one request,
\* update(workflowId, draft) when a workflowId is present and create(draft)
\* otherwise, carrying the draft's current name, description and nodes; no save
\* request is issued any other way; onSaved (the switch to the list) is called
\* once per request, when that request has succeeded, and neither when the
\* request is issued nor when it fails.
C11_SaveIssuesOneRequest ==
  [][/\ SaveStep(last', "started")
          => /\ ~Blank(builder.name)
             /\ inflight' = inflight (+) SetToBag({ExpectedSave(selectedWorkflowId, builder)})
             /\ view' = view
     /\ Pending({"create", "update"})' > Pending({"create", "update"})
          => SaveStep(last', "started")
     /\ SaveStep(last', "ok")
          => /\ view' = "list"
             /\ Pending({"create", "update"})' = Pending({"create", "update"}) - 1
     /\ SaveStep(last', "fail")
          => /\ view' = view
             /\ Pending({"create", "update"})' = Pending({"create", "update"}) - 1]_vars

\* C11 witness: the save of a loaded workflow with a node has issued its update
C11_Witness ==
  /\ SaveStep(last, "started")
  /\ \E r \in DOMAIN inflight :
       /\ r.kind = "update" /\ r.id = "w1" /\ r.live
       /\ r.arg.name = builder.name
       /\ r.arg.nodes = builder.nodes /\ r.arg.nodes # <<>>

\* the alert of a catch: the error's message, or the operation's fallback
Reported(alert, fallback) ==
  alert \in {JsStr("Network Error"), JsStr(fallback)}

\* C12: when a save request fails (its builder still mounted), the error is
\* reported, onSaved is not called (the view stays and nothing is requested),
\* the loading flag is cleared, and name, description and nodes are exactly
\* what they were when the failure arrived.
C12_FailedSaveKeepsDraft ==
  [][(SaveStep(last', "fail") /\ ~last'.stale)
     => /\ Reported(last'.alert, "Failed to save workflow")
        /\ view' = view
        /\ selectedWorkflowId' = selectedWorkflowId
        /\ \A r \in DOMAIN inflight' : r \in DOMAIN inflight /\ inflight'[r] <= inflight[r]
        /\ ~builder'.loading
        /\ Draft(builder') = Draft(builder)]_vars

\* C12 witness: a save has failed after the name was blanked while it was in
\* flight (a blank name cannot have been the one saved); the edit is kept
C12_Witness ==
  /\ view = "builder"
  /\ SaveStep(last, "fail") /\ ~last.stale
  /\ builder.name # <<>> /\ Blank(builder.name)
  /\ builder.nodes # <<>>
  /\ ~builder.loading

LoadStep(l, note) == l.op = "loadWorkflow" /\ l.note = note

\* C13: when a load fails (its builder still mounted), the error is reported
\* and name, description and nodes are left exactly as they were; the loading
\* flag is cleared.
C13_FailedLoadKeepsDraft ==
  [][(LoadStep(last', "fail") /\ ~last'.stale)
     => /\ Reported(last'.alert, "Failed to load workflow")
        /\ Draft(builder') = Draft(builder)
        /\ ~builder'.loading
        /\ view' = view]_vars

\* C13 witness: a load has failed on a draft that was not empty (a name typed
\* and a node added while it was in flight), and the draft is still there
C13_Witness ==
  /\ view = "builder"
  /\ LoadStep(last, "fail") /\ ~last.stale
  /\ builder.name = <<"a">>
  /\ builder.nodes # <<>>

\* the names addNode gives, by the position of the new node
NodeNames == <<"Node 1", "Node 2", "Node 3", "Node 4">>

FreshNode(k) ==
  [name |-> NodeNames[k], prompt |-> "",
   routing_rules |-> [default_target |-> "END", conditional_targets |-> <<>>]]

\* C14: from a draft with k nodes, addNode appends exactly one node at the
\* end, named "Node {k+1}", with empty prompt, default_target "END" and empty
\* conditional_targets, and leaves the k existing nodes unchanged in value and
\* position.
C14_AddNodeAppends ==
  [][last'.op = "addNode"
     => LET k == Len(builder.nodes)
        IN /\ Len(builder'.nodes) = k + 1
           /\ \A i \in 1..k : builder'.nodes[i] = builder.nodes[i]
           /\ builder'.nodes[k + 1] = FreshNode(k + 1)]_vars

\* C14 witness: two addNode calls from the empty draft have given "Node 1",
\* "Node 2" in order
C14_Witness ==
  /\ last.op = "addNode"
  /\ builder.nodes = <<FreshNode(1), FreshNode(2)>>
  /\ builder.nodes[2].name = "Node 2"

\* C15: removeNode(i) on n nodes yields n-1 nodes: those before i unchanged at
\* their positions, those after i one position lower with every field
\* preserved, routing_rules that name the removed node included.
C15_RemoveNodeShifts ==
  [][last'.op = "removeNode"
     => LET i == last'.data.index + 1
            n == Len(builder.nodes)
        IN /\ i \in 1..n
           /\ last'.data.removed = builder.nodes[i]
           /\ Len(builder'.nodes) = n - 1
           /\ \A k \in 1..(i - 1) : builder'.nodes[k] = builder.nodes[k]
           /\ \A k \in i..(n - 1) : builder'.nodes[k] = builder.nodes[k + 1]]_vars

\* C15 witness: the first of two nodes, named "x", was removed; the node that
\* followed it is now first and its default_target still names "x"
C15_Witness ==
  /\ last.op = "removeNode"
  /\ last.data.index = 0
  /\ last.data.removed.name = "x"
  /\ Len(builder.nodes) = 1
  /\ builder.nodes[1].name = "Node 2"
  /\ builder.nodes[1].routing_rules.default_target = "x"

NodeFields == {"name", "prompt", "routing_rules"}

\* C16: updateNode(index, field, value) changes only the named field of the
\* node at index: the length, every other node and every other field of that
\* node are unchanged; the Default Target input replaces only
\* routing_rules.default_target and keeps the node's conditional_targets.
C16_UpdateNodeChangesOneField ==
  [][last'.op = "updateNode"
     => LET i == last'.data.index + 1
            input == last'.data.input
            field == IF input = "default_target" THEN "routing_rules" ELSE input
            old == builder.nodes[i]
            new == builder'.nodes[i]
        IN /\ Len(builder'.nodes) = Len(builder.nodes)
           /\ \A k \in 1..Len(builder.nodes) : k # i => builder'.nodes[k] = builder.nodes[k]
           /\ DOMAIN new = NodeFields
           /\ \A f \in NodeFields \ {field} : new[f] = old[f]
           /\ IF input = "default_target"
              THEN /\ new.routing_rules.default_target = last'.data.text
                   /\ new.routing_rules.conditional_targets = old.routing_rules.conditional_targets
                   /\ DOMAIN new.routing_rules = {"default_target", "conditional_targets"}
              ELSE new[field] = last'.data.text]_vars

\* C16 witness: the default target of the loaded node, which has conditional
\* targets, was edited while a second node sat next to it
C16_Witness ==
  /\ last.op = "updateNode"
  /\ last.data = [index |-> 0, input |-> "default_target", text |-> "x"]
  /\ Len(builder.nodes) = 2
  /\ builder.nodes[1].routing_rules = [default_target |-> "x", conditional_targets |-> <<"c1">>]
  /\ builder.nodes[1].prompt = "p"

\* name, description and nodes of a stored Workflow
WorkflowDraft(wf) == <<wf.name, wf.description, wf.nodes>>

\* C17: against a service that stores what it receives, a save sends the
\* draft W as it is (name, description and nodes), and a load of a saved
\* workflow populates the builder with exactly the name, description and nodes
\* the service holds for it, which are those of the W last saved under that
\* id.
C17_SaveLoadRoundTrip ==
  [][/\ SaveStep(last', "started")
          => inflight' = inflight (+) SetToBag({ExpectedSave(selectedWorkflowId, builder)})
     /\ (LoadStep(last', "ok") /\ ~last'.stale)
          => /\ selectedWorkflowId' \in StoredIds'
             /\ Draft(builder') = WorkflowDraft(last'.data)
             /\ Draft(builder') = WorkflowDraft(service'[selectedWorkflowId'])]_vars

\* C17 witness: a workflow saved with a name, a description and one node has
\* been loaded back into the builder as the service holds it
C17_Witness ==
  /\ view = "builder"
  /\ LoadStep(last, "ok") /\ ~last.stale
  /\ selectedWorkflowId = "w1"
  /\ service["w1"] = [name |-> <<"a">>, description |-> "d", nodes |-> <<FreshNode(1)>>]
  /\ Draft(builder) = <<<<"a">>, "d", <<FreshNode(1)>>>>
  /\ ~builder.loading

\* the history's last step is this step of handleDelete: the confirmation
\* dialog ("confirmed", "declined") or the continuation after the delete
\* request ("ok", "fail")
DeleteStep(l, note) == l.op = "handleDelete" /\ l.note = note

\* C18: a delete request is issued only by the step in which the user
\* confirmed the deletion, and it is the one request of that step, for the row
\* confirmed; a declined confirmation issues no request at all (no delete and
\* no reload) and leaves the list view's state, and the view, as they were.
C18_DeleteOnlyAfterConfirm ==
  [][/\ DeleteStep(last', "declined")
          => /\ inflight' = inflight
             /\ list' = list
             /\ view' = view
     /\ Pending({"delete"})' > Pending({"delete"})
          => /\ DeleteStep(last', "confirmed")
             /\ last'.data.id \in Range(list.workflows)
             /\ inflight' = inflight (+) SetToBag({Req("delete", last'.data.id, NoArg)})]_vars

\* C18 witness: the user has declined to delete a listed workflow while
\* nothing is in flight
C18_Witness ==
  /\ DeleteStep(last, "declined")
  /\ ListShown
  /\ last.data.id \in Range(list.workflows)
  /\ inflight = EmptyBag

\* the history's last step is the completion of the reload that handleDelete
\* starts after a delete
ReloadStep(l, note) ==
  /\ l.op = "loadWorkflows"
  /\ l.note = note
  /\ "after" \in DOMAIN l.data

\* C19: against the service that stores, when a confirmed delete is rejected
\* (the list still mounted) the error is reported, no reload is issued and the
\* list view's state is left exactly as it was; when a confirmed delete
\* succeeds, the reload of the list is issued; and when that reload succeeds
\* the list is rendered and is the listing the service answered, which does
\* not hold the deleted id.
C19_RejectedDeleteKeepsList ==
  [][/\ (DeleteStep(last', "fail") /\ ~last'.stale)
          => /\ Reported(last'.alert, "Failed to delete workflow")
             /\ Pending({"list"})' = Pending({"list"})
             /\ Pending({"delete"})' = Pending({"delete"}) - 1
             /\ list' = list
             /\ view' = view
     /\ (DeleteStep(last', "ok") /\ ~last'.stale)
          => \E r \in DOMAIN inflight :
               /\ r.kind = "delete" /\ r.live
               /\ inflight' = Add(Remove(inflight, r), Req("list", "", [after |-> r.id]))
     /\ (ReloadStep(last', "ok") /\ ~last'.stale)
          => /\ ListShown'
             /\ last'.data.after \notin Range(list'.workflows)
             /\ \E r \in DOMAIN inflight :
                  /\ r.kind = "list" /\ r.arg = last'.data
                  /\ r.resp # Unserved /\ r.resp.ok
                  /\ list'.workflows = r.resp.data.listing
                  /\ inflight' = Remove(inflight, r)]_vars

\* C19 witness: the delete of a workflow the service no longer holds has been
\* rejected; the error is reported and the list of both workflows is rendered
\* as before
C19_Witness ==
  /\ DeleteStep(last, "fail") /\ ~last.stale
  /\ Reported(last.alert, "Failed to delete workflow")
  /\ ListShown
  /\ list.workflows = <<"w1", "w2">>
  /\ \E id \in {"w1", "w2"} : service[id] = Gone
  /\ Pending({"list"}) = 0

\* the reload after the successful delete of w2 has rendered the listing
\* without w2 (the second half of C19)
C19_ReloadedAfterDelete ==
  /\ ReloadStep(last, "ok") /\ ~last.stale
  /\ last.data.after = "w2"
  /\ ListShown
  /\ list.workflows = <<"w1">>
  /\ service["w2"] = Gone

\* the list of workflows is displayed now and is displayed unchanged after
\* the step
ListStaysDisplayed == ListShown => (ListShown' /\ list'.workflows = list.workflows)

\* C20 (as claimed): after a confirmed delete the list displayed changes only
\* when the reload succeeds: issuing the delete, the delete's success (which
\* starts the reload) and the delete's failure all leave the list displayed as
\* it was, and after a failed reload the list is displayed.
C20_ListChangesOnlyOnReload ==
  [][/\ (\E note \in {"confirmed", "ok", "fail"} : DeleteStep(last', note) /\ ~last'.stale)
          => ListStaysDisplayed
     /\ (ReloadStep(last', "fail") /\ ~last'.stale)
          => ListShown']_vars

\* C20, first departure: the delete has succeeded and the spinner is rendered
\* in place of the list while the reload is pending
C20_SpinnerDuringReload ==
  [][(DeleteStep(last', "ok") /\ ~last'.stale) => ListStaysDisplayed]_vars

\* C20, second departure: the reload has failed and the error panel is
\* rendered in place of the list
C20_ErrorPanelAfterFailedReload ==
  [][(ReloadStep(last', "fail") /\ ~last'.stale) => ListShown']_vars

\* C20, what does hold: issuing the delete and the delete's failure leave the
\* list displayed as it was
C20_DeleteAloneKeepsList ==
  [][(\E note \in {"confirmed", "fail"} : DeleteStep(last', note) /\ ~last'.stale)
       => ListStaysDisplayed]_vars

\* C21: in the LLM status card at most one request (status or initialize) is
\* in flight at any time, and whenever one is in flight the loading flag is
\* true and both buttons are disabled; this covers the fetch on mount and the
\* re-fetch after a successful initialize.
C21_OneLLMRequest ==
  /\ BagCardinality(llmInflight) <= 1
  /\ llmInflight # EmptyBag => (requestState.loading /\ ActionsDisabled(requestState))

\* C21 witness: the status re-fetch that follows a successful initialize is
\* the one request in flight, the success message already set
C21_Witness ==
  /\ llmInflight = SetToBag({LReq("status", "initialize")})
  /\ requestState.loading
  /\ requestState.successMessage = "ready"
  /\ last.op = "handleInitialize" /\ last.note = "ok"

\* the history's last step is this step of handleInitialize
InitializeStep(l, note) == l.op = "handleInitialize" /\ l.note = note

\* how many status requests caused by handleInitialize are in flight
Refetches ==
  BagCardinality([r \in {x \in DOMAIN llmInflight : x = LReq("status", "initialize")} |->
                    llmInflight[r]])

\* C22: when initialize succeeds, exactly one status request is issued in
\* place of the initialize request, and a status re-fetch is issued by no
\* other step; when initialize fails, no request is issued, the status held
\* is left as it was, an error is shown and no success message is.
C22_RefetchOnlyAfterSuccess ==
  [][/\ InitializeStep(last', "ok")
          => /\ llmInflight' =
                  (llmInflight (-) SetToBag({LReq("initialize", "click")}))
                    (+) SetToBag({LReq("status", "initialize")})
             /\ LReq("initialize", "click") \in DOMAIN llmInflight
     /\ Refetches' > Refetches => InitializeStep(last', "ok")
     /\ InitializeStep(last', "fail")
          => /\ llmInflight' = llmInflight (-) SetToBag({LReq("initialize", "click")})
             /\ Refetches' = 0
             /\ status' = status
             /\ TruthyStr(requestState'.error)
             /\ requestState'.successMessage = NULL
             /\ ~requestState'.loading]_vars

\* C22 witness: an initialize has failed while a status is held; the error is
\* shown and nothing is in flight
C22_Witness ==
  /\ InitializeStep(last, "fail")
  /\ status # JsNull
  /\ requestState.error = "Failed to initialize LLM"
  /\ llmInflight = EmptyBag

\* C23 (as claimed): every execution that enters Executing leads to Idle
\* (executing = false) with a populated result, the request completing and the
\* executor staying mounted.
C23_ExecutingLeadsToResult ==
  executor.executing ~> (~executor.executing /\ Truthy(executor.result))

\* C23, what does hold: every execution that enters Executing leads to Idle,
\* and no completion leaves the executor in Executing
C23_ExecutingLeadsToIdle == executor.executing ~> ~executor.executing

\* C23, what does hold: after a failed execution the result is populated, and
\* after a successful one it is the body received
C23_CompletionStoresOutcome ==
  [][(last'.op = "handleExecute" /\ last'.note \in {"ok", "fail"})
       => /\ ~executor'.executing
          /\ last'.note = "fail" => Truthy(executor'.result)
          /\ last'.note = "ok" => executor'.result = last'.data]_vars

\* how many requests of the kinds K the card has in flight
CardPending(K) ==
  BagCardinality([r \in {x \in DOMAIN llmInflight : x.kind \in K} |-> llmInflight[r]])

ViewKinds == {"list", "get", "create", "update", "delete", "execute"}

CardKinds == {"status", "initialize"}

\* The steps that may issue a request of each kind: a user action, a mount
\* that a user action or onSaved brings about, and the two continuations (the
\* reload after a successful delete, the re-fetch after a successful
\* initialize).
Issuers(kind) ==
  CASE kind = "list" ->
         {<<"navWorkflows", "">>, <<"navExecute", "">>, <<"onExecute", "">>, <<"cancel", "">>,
          <<"handleSave", "ok">>, <<"handleDelete", "ok">>}
    [] kind = "get" -> {<<"onEdit", "">>}
    [] kind \in {"create", "update"} -> {<<"handleSave", "started">>}
    [] kind = "delete" -> {<<"handleDelete", "confirmed">>}
    [] kind = "execute" -> {<<"handleExecute", "started">>}
    [] kind = "status" -> {<<"loadStatus", "started">>, <<"handleInitialize", "ok">>}
    [] kind = "initialize" -> {<<"handleInitialize", "started">>}

\* the step takes one request out of flight and puts none in
OneRequestLess ==
  /\ BagCardinality(inflight') + BagCardinality(llmInflight')
       = BagCardinality(inflight) + BagCardinality(llmInflight) - 1
  /\ \A k \in ViewKinds : Pending({k})' <= Pending({k})
  /\ \A k \in CardKinds : CardPending({k})' <= CardPending({k})

\* C24: a request of any kind is put in flight only by a user action, by a
\* mount, or by the continuation of a successful delete (one reload) or of a
\* successful initialize (one status re-fetch); the step that handles a failed
\* request puts no request in flight (no retry), and neither does the step
\* that handles the answer of a list, get, execute or status request (no
\* polling).
C24_NoRetryNoPolling ==
  [][/\ inflight' # inflight
          => \A k \in ViewKinds :
               Pending({k})' > Pending({k}) => <<last'.op, last'.note>> \in Issuers(k)
     /\ llmInflight' # llmInflight
          => \A k \in CardKinds :
               CardPending({k})' > CardPending({k}) => <<last'.op, last'.note>> \in Issuers(k)
     /\ last'.note = "fail" => OneRequestLess
     /\ (/\ last'.note = "ok"
         /\ last'.op \in {"loadWorkflows", "loadWorkflow", "handleExecute", "loadStatus"})
          => OneRequestLess
     /\ (<<last'.op, last'.note>> \in {<<"handleDelete", "ok">>, <<"handleInitialize", "ok">>})
          => BagCardinality(inflight') + BagCardinality(llmInflight')
               = BagCardinality(inflight) + BagCardinality(llmInflight)]_vars

\* C24 witness: the list's and the card's mount requests have both failed and
\* a save has just failed too; nothing is in flight
C24_Witness ==
  /\ last.op = "handleSave" /\ last.note = "fail"
  /\ view = "builder"
  /\ requestState.error # NULL
  /\ status = JsNull
  /\ inflight = EmptyBag
  /\ llmInflight = EmptyBag

\* C25: in every draft reached from the empty draft by addNode, updateNode
\* (through the Node Name, Prompt and Default Target inputs) and removeNode,
\* every node's routing_rules holds a default_target string ("END" or what
\* was typed, the empty text included) and an empty conditional_targets.
C25_RoutingRulesShape ==
  \A i \in DOMAIN builder.nodes :
    LET rules == builder.nodes[i].routing_rules
    IN /\ DOMAIN rules = {"default_target", "conditional_targets"}
       /\ rules.default_target \in NodeTexts \cup {"END"}
       /\ rules.conditional_targets = <<>>

\* C25 witness: the Default Target of one of two nodes has just been cleared
C25_Witness ==
  /\ last.op = "updateNode"
  /\ last.data.input = "default_target" /\ last.data.text = ""
  /\ Len(builder.nodes) = 2
  /\ builder.nodes[last.data.index + 1].routing_rules =
       [default_target |-> "", conditional_targets |-> <<>>]

\* the builder is shown with no workflow id (null from the Build button, ""
\* from Create New)
NewWorkflowBuilder == view = "builder" /\ ~TruthyStr(selectedWorkflowId)

\* C26: the Build button and the list's Create New open the builder with no
\* workflow id, whatever was selected before; while that builder is shown the
\* id stays empty, a save it starts issues a create request carrying the
\* draft, and no update request is issued.
C26_NewWorkflowIsCreated ==
  [][/\ last'.op = "navBuild" => (view' = "builder" /\ selectedWorkflowId' = NULL)
     /\ (last'.op = "onEdit" /\ last'.data.id = "")
          => (view' = "builder" /\ selectedWorkflowId' = "")
     /\ NewWorkflowBuilder
          => /\ view' = "builder" => NewWorkflowBuilder'
             /\ Pending({"update"})' <= Pending({"update"})
             /\ SaveStep(last', "started")
                  => inflight' = inflight (+) SetToBag({Req("create", "", SavePayload(builder))})]_vars

\* C26 witness: w1 was opened by Edit, the Build button was clicked before
\* its load arrived, the load then filled the draft, and the save issued a
\* create
C26_Witness ==
  /\ SaveStep(last, "started")
  /\ NewWorkflowBuilder
  /\ selectedWorkflowId = NULL
  /\ builder.nodes = <<StoredNode>>
  /\ \E r \in DOMAIN inflight : r.kind = "create" /\ r.live /\ r.arg.nodes = <<StoredNode>>
  /\ Pending({"update"}) = 0

\* C27 (as claimed): once no delete and no list request is in flight and the
\* list is rendered, the list displayed is the listing of the service as it
\* now stands (the answer to the list request issued last), so it holds no
\* workflow that has been deleted.
C27_SettledListIsCurrent ==
  (Pending({"delete", "list"}) = 0 /\ ListShown) => list.workflows = Listing

\* C27, the weaker half on its own: the settled list displays no deleted
\* workflow
C27_SettledListHasNoDeleted ==
  (Pending({"delete", "list"}) = 0 /\ ListShown)
    => \A id \in Range(list.workflows) : service[id] # Gone

====
